---- MODULE Spec2Model ----
(***************************************************************************)
(* Model of word-counter (src/main.rs): process_file reads a newline-      *)
(* delimited log with BufRead::read_line into one reusable String buffer,  *)
(* deserializes each line into LogLine (serde_json::from_str, one borrowed *)
(* &str field renamed "type") and aggregates count/bytes per type in       *)
(* LogStats.count_map; LogStats::print reports at end of stream.           *)
(*                                                                         *)
(* Text is modelled as a sequence of lexical tokens, each with its byte    *)
(* length.  String tokens carry their decoded value and whether they       *)
(* contain an escape sequence (an escaped string cannot be borrowed from   *)
(* the input, so it cannot become a &str).                                 *)
(***************************************************************************)
EXTENDS Integers, Sequences, FiniteSets, TLC

VARIABLES file, pos, buffer, num_bytes, stats, pc, result, log, stdout

vars == <<file, pos, buffer, num_bytes, stats, pc, result, log, stdout>>

-----------------------------------------------------------------------------
(* Bounds *)

MaxLines == 2

MaxInstant == 1

-----------------------------------------------------------------------------
(* Tokens *)

Punct == {"{", "}", "[", "]", ":", ","}

StrToks == {"s_type", "s_typeEsc", "s_A", "s_B", "s_x", "s_Aesc"}

IsStr(t) == t \in StrToks

\* decoded value of a string token
StrVal(t) ==
  CASE t = "s_type"    -> "type"
    [] t = "s_typeEsc" -> "type"
    [] t = "s_A"       -> "A"
    [] t = "s_B"       -> "B"
    [] t = "s_x"       -> "x"
    [] t = "s_Aesc"    -> "A<LF>"
    [] OTHER           -> ""

\* a string without escape sequences can be handed out as a slice of the input
Borrowable(t) == t \in {"s_type", "s_A", "s_B", "s_x"}

IsWs(t) == t \in {"ws", "nl"}

\* byte length of a token as it stands in the file
TokLen(t) ==
  CASE t \in Punct     -> 1
    [] t = "ws"        -> 1
    [] t = "nl"        -> 1
    [] t = "num"       -> 1
    [] t = "bad"       -> 1
    [] t = "junk"      -> 8
    [] t = "s_type"    -> 6
    [] t = "s_typeEsc" -> 11
    [] t = "s_A"       -> 3
    [] t = "s_B"       -> 3
    [] t = "s_x"       -> 3
    [] t = "s_Aesc"    -> 5

RECURSIVE ByteLen(_)
ByteLen(s) == IF s = <<>> THEN 0 ELSE TokLen(Head(s)) + ByteLen(Tail(s))

ValidUtf8(s) == \A i \in 1..Len(s) : s[i] # "bad"

RECURSIVE StripWs(_)
StripWs(s) ==
  IF s = <<>> THEN <<>>
  ELSE IF IsWs(Head(s)) THEN StripWs(Tail(s))
  ELSE <<Head(s)>> \o StripWs(Tail(s))

-----------------------------------------------------------------------------
(* serde_json::from_str::<LogLine>                                         *)

NoRecord == [ok |-> FALSE, object_type |-> "", next |-> 0]

\* evaluate v once and hand the value to F
Bind(v, F(_)) == CHOOSE r \in {F(x) : x \in {v}} : TRUE

\* IgnoredAny: consume one JSON value starting at s[i]; the index after it, 0 on error
RECURSIVE SkipValue(_, _), SkipMembers(_, _), SkipElements(_, _)
SkipValue(s, i) ==
  IF i > Len(s) THEN 0
  ELSE IF IsStr(s[i]) \/ s[i] = "num" THEN i + 1
  ELSE IF s[i] = "{" THEN
         IF i + 1 <= Len(s) /\ s[i + 1] = "}" THEN i + 2 ELSE SkipMembers(s, i + 1)
  ELSE IF s[i] = "[" THEN
         IF i + 1 <= Len(s) /\ s[i + 1] = "]" THEN i + 2 ELSE SkipElements(s, i + 1)
  ELSE 0

SkipMembers(s, i) ==
  IF i + 1 > Len(s) \/ ~IsStr(s[i]) \/ s[i + 1] # ":" THEN 0
  ELSE Bind(SkipValue(s, i + 2), LAMBDA j :
         IF j = 0 \/ j > Len(s) THEN 0
         ELSE IF s[j] = "}" THEN j + 1
         ELSE IF s[j] = "," THEN SkipMembers(s, j + 1)
         ELSE 0)

SkipElements(s, i) ==
  Bind(SkipValue(s, i), LAMBDA j :
    IF j = 0 \/ j > Len(s) THEN 0
    ELSE IF s[j] = "]" THEN j + 1
    ELSE IF s[j] = "," THEN SkipElements(s, j + 1)
    ELSE 0)

\* Deserialize for &'a str: only a string that can be borrowed from the input
deserialize_str(s, i) ==
  IF i <= Len(s) /\ IsStr(s[i]) /\ Borrowable(s[i])
  THEN [ok |-> TRUE, object_type |-> StrVal(s[i]), next |-> i + 1]
  ELSE NoRecord

\* derived Visitor::visit_map of LogLine: field is NoRecord while `type` is unset
RECURSIVE visit_map_key(_, _, _), visit_map_next(_, _, _)
visit_map_key(s, i, field) ==
  IF i + 1 > Len(s) \/ ~IsStr(s[i]) \/ s[i + 1] # ":" THEN NoRecord
  ELSE IF StrVal(s[i]) = "type" THEN
         IF field.ok THEN NoRecord                      \* duplicate field `type`
         ELSE Bind(deserialize_str(s, i + 2), LAMBDA v :
                IF v.ok THEN visit_map_next(s, v.next, v) ELSE NoRecord)
  ELSE Bind(SkipValue(s, i + 2), LAMBDA j :
         IF j = 0 THEN NoRecord ELSE visit_map_next(s, j, field))

visit_map_next(s, j, field) ==
  IF j > Len(s) THEN NoRecord
  ELSE IF s[j] = "}" THEN
         IF field.ok THEN [field EXCEPT !.next = j + 1] ELSE NoRecord  \* missing field
  ELSE IF s[j] = "," THEN visit_map_key(s, j + 1, field)
  ELSE NoRecord

visit_map(s) ==
  IF Len(s) >= 2 /\ s[2] = "}" THEN visit_map_next(s, 2, NoRecord)
  ELSE visit_map_key(s, 2, NoRecord)

\* derived Visitor::visit_seq of LogLine: the one field is the first element
visit_seq(s) ==
  Bind(deserialize_str(s, 2), LAMBDA v :
    IF v.ok /\ v.next <= Len(s) /\ s[v.next] = "]"
    THEN [v EXCEPT !.next = v.next + 1]
    ELSE NoRecord)

deserialize_struct(s) ==
  IF s = <<>> THEN NoRecord
  ELSE IF s[1] = "{" THEN visit_map(s)
  ELSE IF s[1] = "[" THEN visit_seq(s)
  ELSE NoRecord

\* from_str: deserialize, then only whitespace may remain
from_str(text) ==
  Bind(StripWs(text), LAMBDA s :
    Bind(deserialize_struct(s), LAMBDA r :
      IF r.ok /\ r.next = Len(s) + 1 THEN r ELSE NoRecord))

-----------------------------------------------------------------------------
(* Input files *)

Catalog ==
  { <<"{", "s_type", ":", "s_A", "}">>,
    <<"{", "s_type", ":", "s_B", ",", "s_x", ":", "num", "}">>,
    <<"junk">>,
    <<>>,
    <<"{", "s_x", ":", "num", "}">>,
    <<"{", "s_type", ":", "num", "}">>,
    <<"{", "s_type", ":", "s_Aesc", "}">>,
    <<"[", "s_A", "]">>,
    <<"{", "s_type", ":", "s_A", ",", "s_type", ":", "s_B", "}">>,
    <<"{", "s_x", ":", "{", "s_type", ":", "s_A", "}", ",", "s_type", ":", "s_B", "}">>,
    <<"ws", "{", "s_typeEsc", ":", "s_A", ",", "s_x", ":", "[", "num", ",", "s_x", "]", "}">>,
    <<"{", "s_type", ":", "s_A", "}", "}">>,
    <<"{", "s_type", ":", "s_A", "bad">> }

RECURSIVE TerminatedFiles(_)
TerminatedFiles(n) ==
  IF n = 0 THEN {<<>>}
  ELSE {f \o l \o <<"nl">> : f \in TerminatedFiles(n - 1), l \in Catalog}

Files ==
  UNION { {f \o l \o t : f \in TerminatedFiles(n), l \in Catalog, t \in {<<>>, <<"nl">>}}
          : n \in 0..(MaxLines - 1) }

Instants == 0..MaxInstant

-----------------------------------------------------------------------------
(* process_file *)

EmptyMap == [k \in {} |-> 0]

\* LogStats::default() in place of LogStats::new: the length is not recorded
LogStats_default(file_len_bytes, now) ==
  [file_len_bytes |-> 0, start |-> now, count_map |-> EmptyMap]

\* LogStats::new with Default::default(): start is Instant::now()
LogStats_new(file_len_bytes, now) ==
  [file_len_bytes |-> file_len_bytes, start |-> now, count_map |-> EmptyMap]

\* count left at its Default
ObjectStats_zero(bytes) == [count |-> 0, bytes |-> bytes]

ObjectStats_new(bytes) == [count |-> 1, bytes |-> bytes]

\* index of the last token read_line takes when the reader stands after token p
NextEnd(f, p) ==
  IF \E i \in (p + 1)..Len(f) : f[i] = "nl"
  THEN CHOOSE i \in (p + 1)..Len(f) :
         f[i] = "nl" /\ \A j \in (p + 1)..(i - 1) : f[j] # "nl"
  ELSE Len(f)

Chunk(f, p) == SubSeq(f, p + 1, NextEnd(f, p))

\* a read that reports the length of the line without its terminator
read_line_no_terminator(buf, f, p) ==
  LET c == Chunk(f, p)
      body == SelectSeq(c, LAMBDA t : t # "nl")
  IN IF ValidUtf8(c)
     THEN [ok |-> TRUE,  n |-> ByteLen(body), buf |-> buf \o c, pos |-> NextEnd(f, p)]
     ELSE [ok |-> FALSE, n |-> 0,             buf |-> buf,      pos |-> NextEnd(f, p)]

\* BufRead::read_line: append the next line, terminator included, to buf and
\* return its byte length; bytes that are not UTF-8 are consumed, the buffer is
\* left as it was and the call fails with InvalidData
read_line(buf, f, p) ==
  LET c == Chunk(f, p) IN
  IF ValidUtf8(c)
  THEN [ok |-> TRUE,  n |-> ByteLen(c), buf |-> buf \o c, pos |-> NextEnd(f, p)]
  ELSE [ok |-> FALSE, n |-> 0,          buf |-> buf,      pos |-> NextEnd(f, p)]

\* the buffer is not cleared
clear_noop(buf) == buf

\* String::clear
clear(buf) == <<>>

\* the bytes line is missing
increment_count_only(object_stats, n) ==
  [count |-> object_stats.count + 1, bytes |-> object_stats.bytes]

\* the entry is overwritten by a fresh one
increment_reset(object_stats, n) == [count |-> 1, bytes |-> n]

\* the Some(object_stats) arm
increment(object_stats, n) ==
  [count |-> object_stats.count + 1, bytes |-> object_stats.bytes + n]

\* HashMap::insert
insert(map, k, v) ==
  [x \in (DOMAIN map) \cup {k} |-> IF x = k THEN v ELSE map[x]]

Err(context, kind) == [tag |-> "Err", context |-> context, kind |-> kind]

Init ==
  /\ file \in Files
  /\ pos = 0
  /\ buffer = <<>>
  /\ num_bytes = 0
  /\ \E now \in Instants : stats = LogStats_new(ByteLen(file), now)
  /\ pc = "Reading"
  /\ result = [tag |-> "None"]
  /\ log = <<>>
  /\ stdout = {}

-----------------------------------------------------------------------------
(* One step per position of the loop of process_file *)

\* read_line returned Ok(n), n > 0
ReadLine ==
  /\ pc = "Reading"
  /\ LET r == read_line(buffer, file, pos) IN
       /\ r.ok /\ r.n # 0
       /\ buffer' = r.buf
       /\ num_bytes' = r.n
       /\ pos' = r.pos
  /\ pc' = "Extracting"
  /\ UNCHANGED <<file, stats, result, log, stdout>>

\* read_line returned Ok(0): break
ReadEof ==
  /\ pc = "Reading"
  /\ LET r == read_line(buffer, file, pos) IN
       /\ r.ok /\ r.n = 0
       /\ buffer' = r.buf
       /\ num_bytes' = r.n
       /\ pos' = r.pos
  /\ pc' = "Reporting"
  /\ UNCHANGED <<file, stats, result, log, stdout>>

\* read_line returned Err(InvalidData): `?` returns from process_file
ReadInvalidData ==
  /\ pc = "Reading"
  /\ LET r == read_line(buffer, file, pos) IN
       /\ ~r.ok
       /\ buffer' = r.buf
       /\ pos' = r.pos
  /\ pc' = "Failed"
  /\ result' = Err("Failed to read line", "InvalidData")
  /\ UNCHANGED <<file, num_bytes, stats, log, stdout>>

\* the failed read is retried instead of returned
ReadFault_retry ==
  /\ pc = "Reading"
  /\ \E k \in 0..Len(Chunk(file, pos)) :
       /\ k = 0 \/ k < Len(Chunk(file, pos))
       /\ pos' = pos + k
  /\ UNCHANGED <<file, buffer, num_bytes, stats, pc, result, log, stdout>>

\* the underlying read fails after k tokens of the line: `?` returns
ReadFault ==
  /\ pc = "Reading"
  /\ \E k \in 0..Len(Chunk(file, pos)) :
       /\ k = 0 \/ k < Len(Chunk(file, pos))
       /\ LET part == SubSeq(file, pos + 1, pos + k) IN
            buffer' = IF ValidUtf8(part) THEN buffer \o part ELSE buffer
       /\ pos' = pos + k
  /\ pc' = "Failed"
  /\ result' = Err("Failed to read line", "Other")
  /\ UNCHANGED <<file, num_bytes, stats, log, stdout>>

\* Ok(log_line), key present
Increment ==
  /\ pc = "Extracting"
  /\ LET log_line == from_str(buffer) IN
       /\ log_line.ok
       /\ log_line.object_type \in DOMAIN stats.count_map
       /\ stats' = [stats EXCEPT !.count_map[log_line.object_type] = increment(@, num_bytes)]
  /\ pc' = "Clearing"
  /\ UNCHANGED <<file, pos, buffer, num_bytes, result, log, stdout>>

\* Ok(log_line), key absent
Insert ==
  /\ pc = "Extracting"
  /\ LET log_line == from_str(buffer) IN
       /\ log_line.ok
       /\ log_line.object_type \notin DOMAIN stats.count_map
       /\ stats' = [stats EXCEPT !.count_map =
                      insert(@, log_line.object_type, ObjectStats_new(num_bytes))]
  /\ pc' = "Clearing"
  /\ UNCHANGED <<file, pos, buffer, num_bytes, result, log, stdout>>

\* unwrap_or_default: a line that is not a LogLine counts as LogLine::default()
Skip_default ==
  /\ pc = "Extracting"
  /\ ~from_str(buffer).ok
  /\ stats' = [stats EXCEPT !.count_map =
                 IF "" \in DOMAIN @
                 THEN [@ EXCEPT ![""] = increment(@, num_bytes)]
                 ELSE insert(@, "", ObjectStats_new(num_bytes))]
  /\ pc' = "Clearing"
  /\ UNCHANGED <<file, pos, buffer, num_bytes, result, log, stdout>>

\* the else arm: the line is not a LogLine
Skip ==
  /\ pc = "Extracting"
  /\ ~from_str(buffer).ok
  /\ pc' = "Clearing"
  /\ UNCHANGED <<file, pos, buffer, num_bytes, stats, result, log, stdout>>

Clear ==
  /\ pc = "Clearing"
  /\ buffer' = clear(buffer)
  /\ pc' = "Reading"
  /\ UNCHANGED <<file, pos, num_bytes, stats, result, log, stdout>>

RECURSIVE SumCount(_, _)
SumCount(map, K) ==
  IF K = {} THEN 0
  ELSE LET k == CHOOSE x \in K : TRUE IN map[k].count + SumCount(map, K \ {k})

\* LogStats::print: the summary event, then the table on stdout
summary(st) ==
  [lines |-> SumCount(st.count_map, DOMAIN st.count_map),
   unique_types |-> Cardinality(DOMAIN st.count_map)]

rows(st) ==
  {<<k, st.count_map[k].count, st.count_map[k].bytes>> : k \in DOMAIN st.count_map}

PrintOk ==
  /\ pc = "Reporting"
  /\ log' = Append(log, summary(stats))
  /\ stdout' = rows(stats)
  /\ result' = [tag |-> "Ok", stats |-> stats]
  /\ pc' = "Done"
  /\ UNCHANGED <<file, pos, buffer, num_bytes, stats>>

PrintFail ==
  /\ pc = "Reporting"
  /\ log' = Append(log, summary(stats))
  /\ result' = Err("Failed to print stats table", "Render")
  /\ pc' = "Failed"
  /\ UNCHANGED <<file, pos, buffer, num_bytes, stats, stdout>>

Next ==
  \/ ReadLine
  \/ ReadEof
  \/ ReadInvalidData
  \/ ReadFault
  \/ Increment
  \/ Insert
  \/ Skip
  \/ Clear
  \/ PrintOk
  \/ PrintFail

Spec == Init /\ [][Next]_vars

\* Liveness is checked over files built from one line of each kind the loop
\* tells apart: a record, a record with another field, a blank line, text that
\* is not JSON, bytes that are not UTF-8.
LiveCatalog ==
  { <<"{", "s_type", ":", "s_A", "}">>,
    <<"{", "s_type", ":", "s_B", ",", "s_x", ":", "num", "}">>,
    <<>>,
    <<"junk">>,
    <<"bad">> }

RECURSIVE LiveTerminatedFiles(_)
LiveTerminatedFiles(n) ==
  IF n = 0 THEN {<<>>}
  ELSE {f \o l \o <<"nl">> : f \in LiveTerminatedFiles(n - 1), l \in LiveCatalog}

LiveFiles ==
  UNION { {f \o l \o t : f \in LiveTerminatedFiles(n), l \in LiveCatalog, t \in {<<>>, <<"nl">>}}
          : n \in 0..MaxLines }

LiveInit ==
  /\ file \in LiveFiles
  /\ pos = 0
  /\ buffer = <<>>
  /\ num_bytes = 0
  /\ \E now \in Instants : stats = LogStats_new(ByteLen(file), now)
  /\ pc = "Reading"
  /\ result = [tag |-> "None"]
  /\ log = <<>>
  /\ stdout = {}

\* the program is sequential and always takes its next step
LiveSpec == LiveInit /\ [][Next]_vars /\ WF_vars(Next)

TypeOK ==
  /\ pos \in 0..Len(file)
  /\ pc \in {"Reading", "Extracting", "Clearing", "Reporting", "Done", "Failed"}
  /\ result.tag \in {"None", "Ok", "Err"}

-----------------------------------------------------------------------------
(* Reference definitions used to state the properties *)

count_map == stats.count_map

\* the lines of a file, each named by the index of its last token
LineEnds(f) == {i \in 1..Len(f) : f[i] = "nl" \/ i = Len(f)}

LineStart(f, e) ==
  LET prev == {i \in LineEnds(f) : i < e} IN
  IF prev = {} THEN 1 ELSE (CHOOSE m \in prev : \A i \in prev : i <= m) + 1

LineAt(f, e) == SubSeq(f, LineStart(f, e), e)

Terminated(f, e) == f[e] = "nl"

Extracted(f, e) == from_str(LineAt(f, e)).ok

TypeOf(f, e) == from_str(LineAt(f, e)).object_type

LinesOf(f, E, k) == {e \in E : Extracted(f, e) /\ TypeOf(f, e) = k}

RECURSIVE SumLen(_, _)
SumLen(f, E) ==
  IF E = {} THEN 0
  ELSE LET e == CHOOSE x \in E : TRUE IN ByteLen(LineAt(f, e)) + SumLen(f, E \ {e})

RefAgg(f, E) ==
  [k \in {TypeOf(f, e) : e \in {x \in E : Extracted(f, x)}} |->
     [count |-> Cardinality(LinesOf(f, E, k)), bytes |-> SumLen(f, LinesOf(f, E, k))]]

\* the lines whose iteration has gone through the match on count_map
Aggregated == {e \in LineEnds(file) : e <= pos /\ ~(pc = "Extracting" /\ e = pos)}

RECURSIVE SumBytes(_, _)
SumBytes(map, K) ==
  IF K = {} THEN 0
  ELSE LET k == CHOOSE x \in K : TRUE IN map[k].bytes + SumBytes(map, K \ {k})

\* nesting depth of the token at index i
Depth(s, i) ==
  Cardinality({j \in 1..(i - 1) : s[j] \in {"{", "["}})
    - Cardinality({j \in 1..(i - 1) : s[j] \in {"}", "]"}})

\* the text is one JSON value, an object, with a member "type" bound to a string
IsJsonObjectWithStringType(text) ==
  LET s == StripWs(text) IN
  /\ s # <<>>
  /\ s[1] = "{"
  /\ SkipValue(s, 1) = Len(s) + 1
  /\ \E i \in 1..(Len(s) - 2) :
       /\ Depth(s, i) = 1
       /\ IsStr(s[i]) /\ StrVal(s[i]) = "type"
       /\ s[i + 1] = ":"
       /\ IsStr(s[i + 2])

ReadFailed == pc = "Failed" /\ result.context = "Failed to read line"

-----------------------------------------------------------------------------
(* Properties *)

\* C1: when process_file returns Ok, the returned count_map is the reference
\* aggregation of the file: its keys are the types of the extracted lines, count
\* is the number of those lines and bytes the sum of their read lengths.
C1_FinalMapIsReference ==
  pc = "Done" =>
    /\ result.tag = "Ok"
    /\ result.stats.count_map = RefAgg(file, LineEnds(file))

C1_Witness ==
  /\ pc = "Done"
  /\ Cardinality(DOMAIN result.stats.count_map) = 2
  /\ \A e \in LineEnds(file) : Terminated(file, e)

\* C2 as stated: a category's bytes never includes the length of a read that
\* did not end with a line terminator, and no length is added twice.
C2_NoUnterminatedReadCounted ==
  \A k \in DOMAIN count_map :
    count_map[k].bytes =
      SumLen(file, {e \in LinesOf(file, Aggregated, k) : Terminated(file, e)})

\* C2 amended: a category's bytes is the sum, each taken exactly once, of the
\* read lengths of the lines aggregated for it, the final read without a
\* terminator included.
C2_BytesEachLineOnce ==
  \A k \in DOMAIN count_map :
    count_map[k].bytes = SumLen(file, LinesOf(file, Aggregated, k))

C2_Witness ==
  /\ pc = "Clearing"
  /\ pos = Len(file)
  /\ ~Terminated(file, pos)
  /\ \E k \in DOMAIN count_map :
       /\ count_map[k].count = 2
       /\ pos \in LinesOf(file, Aggregated, k)

\* C3: at every point of the loop the bytes of all categories sum to at most
\* file_len_bytes.
C3_SumBytesAtMostFileLen ==
  SumBytes(count_map, DOMAIN count_map) <= stats.file_len_bytes

C3_Witness ==
  /\ pc = "Clearing"
  /\ Cardinality(DOMAIN count_map) = 2
  /\ SumBytes(count_map, DOMAIN count_map) = stats.file_len_bytes

\* C4 as stated: Failed is reached only through a transport-level read fault or
\* an output render failure, never because of what a line contains.
C4_FailedOnlyByTransportOrRender ==
  pc = "Failed" => result.kind \in {"Other", "Render"}

\* C5 as stated: a line is extracted as a record if and only if it is a valid
\* JSON object that has a string `type` field.
C5_ExtractedIffObjectWithStringType ==
  pc = "Extracting" => (from_str(buffer).ok <=> IsJsonObjectWithStringType(buffer))

\* C6: the iteration of a skipped line leaves the aggregate state (count_map,
\* file_len_bytes, start) as it was and produces no error outcome.
C6_SkipLeavesStatsUnchanged ==
  [][(pc = "Extracting" /\ ~from_str(buffer).ok) =>
       (stats' = stats /\ result' = result /\ pc' = "Clearing")]_vars

C6_Witness ==
  /\ pc = "Clearing"
  /\ ~from_str(buffer).ok
  /\ DOMAIN count_map # {}

\* C7: a read that does not return Ok moves to Failed in that step with an
\* error that carries no stats; nothing has been or is reported, and nothing
\* happens after Failed (no further read, no retry).
C7_ReadFailureIsFatal ==
  [][/\ (pc = "Reading" /\ pc' \notin {"Extracting", "Reporting"}) =>
          /\ pc' = "Failed"
          /\ result'.tag = "Err"
          /\ "stats" \notin DOMAIN result'
          /\ log' = <<>> /\ stdout' = {}
          /\ stats' = stats
     /\ pc # "Failed"]_vars

C7_Witness ==
  /\ ReadFailed
  /\ DOMAIN count_map # {}
  /\ pos < Len(file)

\* C8: the buffer is empty at the moment of every read; after a read it holds
\* exactly the line just read and num_bytes is its length.
C8_BufferHoldsOnlyCurrentLine ==
  /\ pc = "Reading" => buffer = <<>>
  /\ pc = "Extracting" =>
       /\ buffer = LineAt(file, pos)
       /\ num_bytes = ByteLen(buffer)

C8_Witness ==
  /\ pc = "Extracting"
  /\ LineStart(file, pos) > 1
  /\ from_str(buffer).ok
  /\ DOMAIN count_map # {}

\* C9: the loop leaves Reading for Reporting only on a read of zero bytes, at
\* the end of the file; every other successful read takes exactly the next line
\* (a blank line counts its terminator); and barring a read failure Reporting
\* is eventually reached.
C9_EveryLineReadThenReporting ==
  /\ [][/\ (pc = "Reading" /\ pc' = "Reporting") =>
             (pos = Len(file) /\ num_bytes' = 0 /\ pos' = pos)
        /\ (pc = "Reading" /\ pc' = "Extracting") =>
             /\ pos < Len(file)
             /\ pos' \in LineEnds(file)
             /\ LineStart(file, pos') = pos + 1
             /\ buffer' = LineAt(file, pos')
             /\ num_bytes' > 0
        /\ pc # "Reading" => pos' = pos]_vars
  /\ <>(pc = "Reporting" \/ ReadFailed)

C9_Witness ==
  /\ pc = "Reporting"
  /\ pos = Len(file)
  /\ \E e \in LineEnds(file) : LineAt(file, e) = <<"nl">> /\ e < Len(file)

\* C10: an extracted record changes exactly one entry: an existing key gains 1
\* count and the line's bytes, a new key is inserted with count 1 and the
\* line's bytes; no entry is removed or reset, and every count is at least 1.
C10_OneEntryChangesPerRecord ==
  /\ [](\A k \in DOMAIN count_map : count_map[k].count >= 1)
  /\ [][/\ DOMAIN count_map \subseteq DOMAIN stats'.count_map
        /\ \A j \in DOMAIN count_map : stats'.count_map[j].count >= count_map[j].count
        /\ (pc = "Extracting" /\ from_str(buffer).ok) =>
             LET k == from_str(buffer).object_type IN
             /\ DOMAIN stats'.count_map = DOMAIN count_map \cup {k}
             /\ \A j \in DOMAIN count_map \ {k} : stats'.count_map[j] = count_map[j]
             /\ stats'.count_map[k] =
                  IF k \in DOMAIN count_map
                  THEN [count |-> count_map[k].count + 1,
                        bytes |-> count_map[k].bytes + num_bytes]
                  ELSE [count |-> 1, bytes |-> num_bytes]]_vars

C10_Witness ==
  /\ pc = "Clearing"
  /\ \E k \in DOMAIN count_map : count_map[k].count = 2 /\ count_map[k].bytes > 20

====
